---- MODULE Spec2Model ----
(***************************************************************************)
(* The Subscription / Provider / Connect sketch of src/src/MyRedux.js      *)
(* (the uncommented "version 3", lines 156-462) as a state machine.        *)
(*                                                                         *)
(* A container is a Connect instance together with its Subscription; the   *)
(* callback `onStateChange` of container n is written n wherever the code  *)
(* passes the bound function around (listeners, store.subscribe).          *)
(*                                                                         *)
(* Reading of the malformed statements of the source:                      *)
(*   line 228  `this.trySubscribe() { ... push ... }` is read as the call  *)
(*             followed by the block, i.e. trySubscribe(); push(listener). *)
(*   line 405  `this.componentDidUpdate.this.notifyNestedSubsOn...;` is    *)
(*             read as the assignment the method at 415-419 exists for:    *)
(*             this.componentDidUpdate = this.notifyNestedSubsOn...        *)
(*   line 423  `this.selector(store.state, nextProps)` calls the stateful  *)
(*             selector object as if it were the plain selector it wraps   *)
(*             (and names a `store` that is not in scope); it is read as   *)
(*             what 400 does for the store: this.selector.run(nextProps).  *)
(* Control flow is modelled exactly as the braces of the source nest it.   *)
(***************************************************************************)
EXTENDS Integers, Sequences, FiniteSets, TLC

\* Number of containers that may be constructed.
MaxNodes == 3
Nodes == 1..MaxNodes

\* Provider.getChildContext: parentSub of the outermost container is null.
null == 0

\* context.parentSub of a container that no ancestor gave a parentSub:
\* absent, and not null.
undefined == 0 - 1

VARIABLES
    constructed,            \* containers whose constructor has run
    parentSub,              \* Subscription.parentSub of each container
    subscribed,             \* Subscription.subscribed
    listeners,              \* Subscription.listeners (callbacks = container ids)
    storeListeners,         \* callbacks handed to store.subscribe, in call order
    mountOrder,             \* containers in the order componentDidMount ran
    shouldComponentUpdate,  \* statefulSelector.shouldComponentUpdate
    componentDidUpdate,     \* which function this.componentDidUpdate resolves to
    stack,                  \* call stack of the notification in progress
    log,                    \* onStateChange invocations of the latest notification
    subscribeThrows,        \* whether store.subscribe currently throws
    thrown,                 \* Subscriptions whose trySubscribe threw in the
                            \* latest componentDidMount
    mountError,             \* containers whose componentDidMount threw
    notifyCount             \* notifyNestedSubs calls per container in the
                            \* current store change

vars == <<constructed, parentSub, subscribed, listeners, storeListeners,
          mountOrder, shouldComponentUpdate, componentDidUpdate, stack, log,
          subscribeThrows, thrown, mountError, notifyCount>>

Range(s) == {s[i] : i \in DOMAIN s}

mounted == Range(mountOrder)

\* The Subscription fields the subscribe path reads and writes, as one value,
\* with the exception (if any) that is propagating: nothing in the source
\* catches, so a throw skips the rest of every caller up to componentDidMount.
SubState ==
    [subscribed |-> subscribed, listeners |-> listeners,
     storeListeners |-> storeListeners, throws |-> subscribeThrows,
     error |-> FALSE, thrown |-> {}]

RECURSIVE trySubscribe(_, _)
RECURSIVE addNestedSub(_, _, _)
RECURSIVE addNestedSub_noTrySubscribe(_, _, _)
RECURSIVE addNestedSub_unshift(_, _, _)
RECURSIVE addNestedSub_sharedList(_, _, _)
RECURSIVE trySubscribe_noGuard(_, _)
RECURSIVE trySubscribe_neverMarks(_, _)

\* store.subscribe(listener): the store keeps its listeners in call order,
\* or throws.
storeSubscribe(st, listener) ==
    IF st.throws
    THEN [st EXCEPT !.error = TRUE]
    ELSE [st EXCEPT !.storeListeners = Append(@, listener)]

\* Mutant: trySubscribe registers and leaves this.subscribed as it is.
trySubscribe_neverMarks(st, n) ==
    LET s1 == IF ~st.subscribed[n]
              THEN IF parentSub[n] # null
                   THEN IF parentSub[n] = undefined
                        THEN [st EXCEPT !.error = TRUE]
                        ELSE addNestedSub(st, parentSub[n], n)
                   ELSE st
              ELSE storeSubscribe(st, n)
    IN  IF s1.error
        THEN [s1 EXCEPT !.thrown = @ \cup {n}]
        ELSE s1

\* Mutant: trySubscribe registers with the parent on every call, without
\* looking at this.subscribed.
trySubscribe_noGuard(st, n) ==
    LET s1 == IF parentSub[n] # null
              THEN IF parentSub[n] = undefined
                   THEN [st EXCEPT !.error = TRUE]
                   ELSE addNestedSub(st, parentSub[n], n)
              ELSE st
    IN  IF s1.error
        THEN [s1 EXCEPT !.thrown = @ \cup {n}]
        ELSE [s1 EXCEPT !.subscribed[n] = TRUE]

\* Subscription.trySubscribe. The else belongs to the OUTER if of the source:
\* a node that is not yet subscribed registers with its parent when it has
\* one and does nothing otherwise; a node that is already subscribed calls
\* store.subscribe(onStateChange). Then subscribed = true. A parentSub that
\* is undefined passes `!== null` and the call of its addNestedSub is a
\* TypeError.
trySubscribe(st, n) ==
    LET s1 == IF ~st.subscribed[n]
              THEN IF parentSub[n] # null
                   THEN IF parentSub[n] = undefined
                        THEN [st EXCEPT !.error = TRUE]
                        ELSE addNestedSub(st, parentSub[n], n)
                   ELSE st
              ELSE storeSubscribe(st, n)
    IN  IF s1.error
        THEN [s1 EXCEPT !.thrown = @ \cup {n}]
        ELSE [s1 EXCEPT !.subscribed[n] = TRUE]

\* Mutant: the listener is pushed without subscribing this node first.
addNestedSub_noTrySubscribe(st, p, listener) ==
    [st EXCEPT !.listeners[p] = Append(@, listener)]

\* Mutant: the listener is put at the front of the collection.
addNestedSub_unshift(st, p, listener) ==
    LET s1 == trySubscribe(st, p)
    IN  IF s1.error
        THEN s1
        ELSE [s1 EXCEPT !.listeners[p] = <<listener>> \o @]

\* Mutant: all Subscriptions share one listeners array, so a push shows in
\* every Subscription's list.
addNestedSub_sharedList(st, p, listener) ==
    LET s1 == trySubscribe(st, p)
    IN  IF s1.error
        THEN s1
        ELSE [s1 EXCEPT !.listeners =
                            [q \in Nodes |-> Append(s1.listeners[q], listener)]]

\* Subscription.addNestedSub: trySubscribe() on this node, then push.
addNestedSub(st, p, listener) ==
    LET s1 == trySubscribe(st, p)
    IN  IF s1.error
        THEN s1
        ELSE [s1 EXCEPT !.listeners[p] = Append(@, listener)]

Init ==
    /\ constructed = {}
    /\ parentSub = [n \in Nodes |-> null]
    /\ subscribed = [n \in Nodes |-> FALSE]
    /\ listeners = [n \in Nodes |-> <<>>]
    /\ storeListeners = <<>>
    /\ mountOrder = <<>>
    /\ shouldComponentUpdate = [n \in Nodes |-> FALSE]
    /\ componentDidUpdate = [n \in Nodes |-> "prototype"]
    /\ stack = <<>>
    /\ log = <<>>
    /\ subscribeThrows = FALSE
    /\ thrown = {}
    /\ mountError = {}
    /\ notifyCount = [n \in Nodes |-> 0]

\* Mutant: the constructor registers the new Subscription at once, with its
\* parent's listeners or with the store.
Construct_registers(n, p) ==
    /\ stack = <<>>
    /\ n \notin constructed
    /\ \A m \in Nodes : m < n => m \in constructed
    /\ p = null \/ p \in constructed
    /\ constructed' = constructed \cup {n}
    /\ parentSub' = [parentSub EXCEPT ![n] = p]
    /\ subscribed' = [subscribed EXCEPT ![n] = FALSE]
    /\ listeners' = IF p = null
                    THEN [listeners EXCEPT ![n] = <<>>]
                    ELSE [listeners EXCEPT ![n] = <<>>, ![p] = Append(@, n)]
    /\ storeListeners' = IF p = null
                         THEN Append(storeListeners, n)
                         ELSE storeListeners
    /\ shouldComponentUpdate' = [shouldComponentUpdate EXCEPT ![n] = FALSE]
    /\ UNCHANGED <<mountOrder, componentDidUpdate, stack, log, subscribeThrows, thrown, mountError, notifyCount>>

\* Connect.constructor followed by the first render: the container takes
\* parentSub from the context of its nearest ancestor container (null under
\* the Provider, undefined when nothing provides it) and builds its
\* Subscription, whose constructor stores what it is given; initSelector's
\* run sets shouldComponentUpdate and the first render resets it.
Construct(n, p) ==
    /\ stack = <<>>
    /\ n \notin constructed
    /\ \A m \in Nodes : m < n => m \in constructed
    /\ p \in {null, undefined} \/ p \in constructed
    /\ constructed' = constructed \cup {n}
    /\ parentSub' = [parentSub EXCEPT ![n] = p]
    /\ subscribed' = [subscribed EXCEPT ![n] = FALSE]
    /\ listeners' = [listeners EXCEPT ![n] = <<>>]
    /\ shouldComponentUpdate' = [shouldComponentUpdate EXCEPT ![n] = FALSE]
    /\ UNCHANGED <<storeListeners, mountOrder, componentDidUpdate, stack, log,
                   subscribeThrows, thrown, mountError,
                   notifyCount>>

\* Connect.componentDidMount: this.subscription.trySubscribe(). React mounts
\* the children a container rendered before the container itself. An
\* exception of trySubscribe leaves componentDidMount as it left trySubscribe;
\* componentDidMount is not called again.
ComponentDidMount(n) ==
    /\ stack = <<>>
    /\ n \in constructed
    /\ n \notin mounted
    /\ \A c \in constructed : parentSub[c] = n => c \in mounted
    /\ LET st == trySubscribe(SubState, n)
       IN  /\ subscribed' = st.subscribed
           /\ listeners' = st.listeners
           /\ storeListeners' = st.storeListeners
           /\ thrown' = st.thrown
           /\ mountError' = IF st.error THEN mountError \cup {n} ELSE mountError
    /\ mountOrder' = Append(mountOrder, n)
    /\ UNCHANGED <<constructed, parentSub, shouldComponentUpdate,
                   componentDidUpdate, stack, log, subscribeThrows,
                   notifyCount>>

\* The store starts or stops refusing subscriptions (store.subscribe throws,
\* e.g. while a reducer runs or once the store is torn down).
SubscribeAvailability ==
    /\ stack = <<>>
    /\ subscribeThrows' = ~subscribeThrows
    /\ UNCHANGED <<constructed, parentSub, subscribed, listeners,
                   storeListeners, mountOrder, shouldComponentUpdate,
                   componentDidUpdate, stack, log, thrown,
                   mountError, notifyCount>>

Top(stk) == stk[Len(stk)]
Pop(stk) == SubSeq(stk, 1, Len(stk) - 1)

\* The collection a loop frame walks: the store's listeners for the store's
\* own notification loop, this.listeners for a Subscription's forEach.
FrameList(f) == IF f.kind = "store" THEN storeListeners ELSE listeners[f.node]

\* store.dispatch(action) changing the state: the store calls every listener
\* registered through store.subscribe, in registration order.
Dispatch ==
    /\ stack = <<>>
    /\ log' = <<>>
    /\ notifyCount' = [n \in Nodes |-> 0]
    /\ stack' = <<[kind |-> "store", node |-> null, idx |-> 1,
                   len |-> Len(storeListeners), called |-> <<>>]>>
    /\ UNCHANGED <<constructed, parentSub, subscribed, listeners,
                   storeListeners, mountOrder, shouldComponentUpdate,
                   componentDidUpdate, subscribeThrows, thrown, mountError>>

\* Mutant: the loop stops before the last listener.
notifyNestedSubs_skipsLast(stk, n) ==
    Append(stk, [kind |-> "forEach", node |-> n, idx |-> 1,
                 len |-> IF listeners[n] = <<>> THEN 0 ELSE Len(listeners[n]) - 1,
                 called |-> <<>>])

\* Subscription.notifyNestedSubs: this.listeners.forEach(listener => listener()).
\* forEach fixes the range at the length the array has when it starts.
notifyNestedSubs(stk, n) ==
    Append(stk, [kind |-> "forEach", node |-> n, idx |-> 1,
                 len |-> Len(listeners[n]), called |-> <<>>])

\* Number of notifyNestedSubs loops of container n that a step started: the
\* forEach frames of n that stk2 holds and stk did not.
NotifiesStarted(stk, stk2, n) ==
    Cardinality({k \in DOMAIN stk2 :
                    /\ stk2[k].kind = "forEach"
                    /\ stk2[k].node = n
                    /\ stk2[k].idx = 1
                    /\ stk2[k].called = <<>>
                    /\ (k > Len(stk) \/ stk[k] # stk2[k])})

\* Mutant: a container that re-renders notifies at once and again after the
\* update.
onStateChange_notifiesAlsoBeforeUpdate(stk, n, update) ==
    IF ~update
    THEN notifyNestedSubs(stk, n)
    ELSE Append(notifyNestedSubs(stk, n),
                [kind |-> "setState", node |-> n, idx |-> 1, len |-> 0,
                 called |-> <<>>])

\* Mutant: setState only queues the update; it runs after the loop that
\* called the listener has returned.
onStateChange_deferred(stk, n, update) ==
    IF ~update
    THEN notifyNestedSubs(stk, n)
    ELSE Append(Append(Pop(stk),
                       [kind |-> "setState", node |-> n, idx |-> 1, len |-> 0,
                        called |-> <<>>]),
                Top(stk))

\* Mutant: a container that does not re-render returns without notifying.
onStateChange_skipSilently(stk, n, update) ==
    IF ~update
    THEN stk
    ELSE Append(stk, [kind |-> "setState", node |-> n, idx |-> 1, len |-> 0,
                      called |-> <<>>])

\* Connect.onStateChange after selector.run: without a re-render the nested
\* subscriptions are notified at once; otherwise setState({}) starts an update.
onStateChange(stk, n, update) ==
    IF ~update
    THEN notifyNestedSubs(stk, n)
    ELSE Append(stk, [kind |-> "setState", node |-> n, idx |-> 1, len |-> 0,
                      called |-> <<>>])

\* makeStatefulSelector.run: the flag is raised when the selected props are
\* not the previous ones and is otherwise left as it is.
run(flag, changed) == flag \/ changed

\* One iteration of a loop over listeners: listener(), i.e. the onStateChange
\* of container m = list[idx]. `changed` is whether the selector returned
\* props different from the previous ones.
InvokeListener(changed) ==
    /\ stack # <<>>
    /\ Top(stack).kind \in {"store", "forEach"}
    /\ Top(stack).idx <= Top(stack).len
    /\ LET f == Top(stack)
           m == FrameList(f)[f.idx]
           update == run(shouldComponentUpdate[m], changed)
           caller == [f EXCEPT !.idx = @ + 1, !.called = Append(@, m)]
       IN  /\ log' = Append(log, m)
           /\ shouldComponentUpdate' = [shouldComponentUpdate EXCEPT ![m] = update]
           /\ componentDidUpdate' =
                  IF update
                  THEN [componentDidUpdate EXCEPT
                            ![m] = "notifyNestedSubsOnComponentDidUpdate"]
                  ELSE componentDidUpdate
           /\ stack' = onStateChange(Append(Pop(stack), caller), m, update)
    /\ notifyCount' = [n \in Nodes |->
                           notifyCount[n] + NotifiesStarted(stack, stack', n)]
    /\ UNCHANGED <<constructed, parentSub, subscribed, listeners,
                   storeListeners, mountOrder, subscribeThrows,
                   thrown, mountError>>

\* this.setState({}) of container m: React asks shouldComponentUpdate, renders
\* (render resets the selector's flag) and then calls this.componentDidUpdate,
\* which is the prototype's method, notifyNestedSubsOnComponentDidUpdate (it
\* un-implements itself and notifies) or undefined.
SetState ==
    /\ stack # <<>>
    /\ Top(stack).kind = "setState"
    /\ LET m == Top(stack).node
           cdu == componentDidUpdate[m]
       IN  IF shouldComponentUpdate[m]
           THEN /\ shouldComponentUpdate' = [shouldComponentUpdate EXCEPT ![m] = FALSE]
                /\ componentDidUpdate' =
                       IF cdu = "notifyNestedSubsOnComponentDidUpdate"
                       THEN [componentDidUpdate EXCEPT ![m] = "undefined"]
                       ELSE componentDidUpdate
                /\ stack' = IF cdu = "undefined"
                            THEN Pop(stack)
                            ELSE notifyNestedSubs(Pop(stack), m)
           ELSE /\ stack' = Pop(stack)
                /\ UNCHANGED <<shouldComponentUpdate, componentDidUpdate>>
    /\ notifyCount' = [n \in Nodes |->
                           notifyCount[n] + NotifiesStarted(stack, stack', n)]
    /\ UNCHANGED <<constructed, parentSub, subscribed, listeners,
                   storeListeners, mountOrder, log, subscribeThrows,
                   thrown, mountError>>

\* A loop over listeners has called its last listener and returns.
Return ==
    /\ stack # <<>>
    /\ Top(stack).kind \in {"store", "forEach"}
    /\ Top(stack).idx > Top(stack).len
    /\ stack' = Pop(stack)
    /\ UNCHANGED <<constructed, parentSub, subscribed, listeners,
                   storeListeners, mountOrder, shouldComponentUpdate,
                   componentDidUpdate, log, subscribeThrows,
                   thrown, mountError, notifyCount>>

\* Data source 2: something above container n that is not being notified
\* re-renders it with own props. componentWillReceiveProps runs the selector
\* on them, shouldComponentUpdate returns the selector's flag, render resets
\* it, and React then calls whatever this.componentDidUpdate resolves to:
\* the prototype's method (notifyNestedSubs) or, once
\* notifyNestedSubsOnComponentDidUpdate has run, the instance's undefined.
\* The callbacks that are called from here on are not those of a store
\* change, so the record of the last one is dropped.
ComponentWillReceiveProps(n, changed) ==
    /\ stack = <<>>
    /\ n \in mounted
    /\ LET update == run(shouldComponentUpdate[n], changed)
           cdu == componentDidUpdate[n]
       IN  /\ update
           /\ shouldComponentUpdate' = [shouldComponentUpdate EXCEPT ![n] = FALSE]
           /\ componentDidUpdate' =
                  IF cdu = "notifyNestedSubsOnComponentDidUpdate"
                  THEN [componentDidUpdate EXCEPT ![n] = "undefined"]
                  ELSE componentDidUpdate
           /\ stack' = IF cdu = "undefined"
                       THEN stack
                       ELSE notifyNestedSubs(stack, n)
    /\ log' = <<>>
    /\ notifyCount' = [m \in Nodes |-> 0]
    /\ UNCHANGED <<constructed, parentSub, subscribed, listeners,
                   storeListeners, mountOrder, subscribeThrows,
                   thrown, mountError>>

Next ==
    \/ \E n \in Nodes, p \in Nodes \cup {null, undefined} : Construct(n, p)
    \/ \E n \in Nodes : ComponentDidMount(n)
    \/ SubscribeAvailability
    \/ Dispatch
    \/ \E n \in Nodes, changed \in BOOLEAN : ComponentWillReceiveProps(n, changed)
    \/ \E changed \in BOOLEAN : InvokeListener(changed)
    \/ SetState
    \/ Return

Spec == Init /\ [][Next]_vars

\* A step of the notification the store is delivering. dispatch and all it
\* calls are one synchronous call: once started, the JavaScript engine runs
\* it until the call stack is empty.
RunToCompletion ==
    \/ \E changed \in BOOLEAN : InvokeListener(changed)
    \/ SetState
    \/ Return

FairSpec == Spec /\ WF_vars(RunToCompletion)

----------------------------------------------------------------------------
\* Registration while a notification runs. The lifecycle of Connect alone
\* never registers a child on a node whose loop is running (an update inside
\* the loop of p renders below a child of p), but code that a callback runs
\* may render a new container anywhere, which React constructs and mounts
\* before that callback returns.

\* Connect.constructor of a container rendered during a notification.
ConstructInNotification(n, p) ==
    /\ stack # <<>>
    /\ n \notin constructed
    /\ \A m \in Nodes : m < n => m \in constructed
    /\ p \in {null, undefined} \/ p \in constructed
    /\ constructed' = constructed \cup {n}
    /\ parentSub' = [parentSub EXCEPT ![n] = p]
    /\ subscribed' = [subscribed EXCEPT ![n] = FALSE]
    /\ listeners' = [listeners EXCEPT ![n] = <<>>]
    /\ shouldComponentUpdate' = [shouldComponentUpdate EXCEPT ![n] = FALSE]
    /\ UNCHANGED <<storeListeners, mountOrder, componentDidUpdate, stack, log,
                   subscribeThrows, thrown, mountError, notifyCount>>

\* Mutant: a registration stretches the loops that are running over the
\* list it appended to.
ComponentDidMountInNotification_extendsLoops(n) ==
    /\ stack # <<>>
    /\ n \in constructed
    /\ n \notin mounted
    /\ \A c \in constructed : parentSub[c] = n => c \in mounted
    /\ LET st == trySubscribe(SubState, n)
       IN  /\ subscribed' = st.subscribed
           /\ listeners' = st.listeners
           /\ storeListeners' = st.storeListeners
           /\ thrown' = st.thrown
           /\ mountError' = IF st.error THEN mountError \cup {n} ELSE mountError
           /\ stack' = [k \in DOMAIN stack |->
                            IF stack[k].kind = "forEach"
                            THEN [stack[k] EXCEPT
                                      !.len = Len(st.listeners[stack[k].node])]
                            ELSE stack[k]]
    /\ mountOrder' = Append(mountOrder, n)
    /\ UNCHANGED <<constructed, parentSub, shouldComponentUpdate,
                   componentDidUpdate, log, subscribeThrows, notifyCount>>

\* Connect.componentDidMount of a container mounted during a notification:
\* this.subscription.trySubscribe(), which pushes onto listeners lists that a
\* forEach may be walking.
ComponentDidMountInNotification(n) ==
    /\ stack # <<>>
    /\ n \in constructed
    /\ n \notin mounted
    /\ \A c \in constructed : parentSub[c] = n => c \in mounted
    /\ LET st == trySubscribe(SubState, n)
       IN  /\ subscribed' = st.subscribed
           /\ listeners' = st.listeners
           /\ storeListeners' = st.storeListeners
           /\ thrown' = st.thrown
           /\ mountError' = IF st.error THEN mountError \cup {n} ELSE mountError
    /\ mountOrder' = Append(mountOrder, n)
    /\ UNCHANGED <<constructed, parentSub, shouldComponentUpdate,
                   componentDidUpdate, stack, log, subscribeThrows,
                   notifyCount>>

NextInNotification ==
    \/ Next
    \/ \E n \in Nodes, p \in Nodes \cup {null, undefined} :
           ConstructInNotification(n, p)
    \/ \E n \in Nodes : ComponentDidMountInNotification(n)

SpecInNotification == Init /\ [][NextInNotification]_vars

----------------------------------------------------------------------------
\* Version 1 of the wiring (src/src/Container.js): a Connect container has no
\* Subscription; it hands its onStateChange to the store itself when it
\* mounts. parentSub holds here the nearest container above in the rendered
\* tree, which version 1 does not store anywhere.

\* What version 1 never touches.
subscriptionVars ==
    <<subscribed, listeners, shouldComponentUpdate, componentDidUpdate,
      subscribeThrows, thrown, mountError, notifyCount>>

\* Mutant: a store that puts a new listener in front of the others.
storeSubscribeV1_unshift(ls, listener) == <<listener>> \o ls

\* store.subscribe(listener) of a store that calls its listeners in
\* registration order.
storeSubscribeV1(ls, listener) == Append(ls, listener)

\* A version-1 container is rendered under container p (null: under none).
ConstructV1(n, p) ==
    /\ stack = <<>>
    /\ n \notin constructed
    /\ \A m \in Nodes : m < n => m \in constructed
    /\ p = null \/ p \in constructed
    /\ constructed' = constructed \cup {n}
    /\ parentSub' = [parentSub EXCEPT ![n] = p]
    /\ UNCHANGED <<storeListeners, mountOrder, stack, log>>
    /\ UNCHANGED subscriptionVars

\* Connect.componentDidMount of version 1:
\* store.subscribe(this.onStateChange.bind(this)). React mounts the children
\* a container rendered before the container itself.
ComponentDidMountV1(n) ==
    /\ stack = <<>>
    /\ n \in constructed
    /\ n \notin mounted
    /\ \A c \in constructed : parentSub[c] = n => c \in mounted
    /\ storeListeners' = storeSubscribeV1(storeListeners, n)
    /\ mountOrder' = Append(mountOrder, n)
    /\ UNCHANGED <<constructed, parentSub, stack, log>>
    /\ UNCHANGED subscriptionVars

\* store.dispatch(action): the store calls its listeners in order.
DispatchV1 ==
    /\ stack = <<>>
    /\ log' = <<>>
    /\ stack' = <<[kind |-> "store", node |-> null, idx |-> 1,
                   len |-> Len(storeListeners), called |-> <<>>]>>
    /\ UNCHANGED <<constructed, parentSub, storeListeners, mountOrder>>
    /\ UNCHANGED subscriptionVars

\* The store calls the next listener: onStateChange of version 1 is
\* this.setState({}).
InvokeListenerV1 ==
    /\ stack # <<>>
    /\ Top(stack).kind = "store"
    /\ Top(stack).idx <= Top(stack).len
    /\ LET f == Top(stack)
           m == storeListeners[f.idx]
           caller == [f EXCEPT !.idx = @ + 1, !.called = Append(@, m)]
       IN  /\ log' = Append(log, m)
           /\ stack' = Append(Append(Pop(stack), caller),
                              [kind |-> "setState", node |-> m, idx |-> 1,
                               len |-> 0, called |-> <<>>])
    /\ UNCHANGED <<constructed, parentSub, storeListeners, mountOrder>>
    /\ UNCHANGED subscriptionVars

\* setState({}) of version 1: the container renders again, then setState
\* returns into the store's loop.
SetStateV1 ==
    /\ stack # <<>>
    /\ Top(stack).kind = "setState"
    /\ stack' = Pop(stack)
    /\ UNCHANGED <<constructed, parentSub, storeListeners, mountOrder, log>>
    /\ UNCHANGED subscriptionVars

\* The store's loop has called its last listener; dispatch returns.
ReturnV1 ==
    /\ stack # <<>>
    /\ Top(stack).kind = "store"
    /\ Top(stack).idx > Top(stack).len
    /\ stack' = Pop(stack)
    /\ UNCHANGED <<constructed, parentSub, storeListeners, mountOrder, log>>
    /\ UNCHANGED subscriptionVars

NextV1 ==
    \/ \E n \in Nodes, p \in Nodes \cup {null} : ConstructV1(n, p)
    \/ \E n \in Nodes : ComponentDidMountV1(n)
    \/ DispatchV1
    \/ InvokeListenerV1
    \/ SetStateV1
    \/ ReturnV1

SpecV1 == Init /\ [][NextV1]_vars

----------------------------------------------------------------------------
\* Vocabulary of the properties.

RECURSIVE Ancestors(_)
\* The containers on the parentSub chain of n, n excluded.
Ancestors(n) ==
    IF parentSub[n] \notin Nodes
    THEN {}
    ELSE {parentSub[n]} \cup Ancestors(parentSub[n])

\* n and the constructed containers below it.
Subtree(n) == {n} \cup {d \in constructed : n \in Ancestors(d)}

RECURSIVE Count(_, _)
\* Number of occurrences of x in the sequence s.
Count(s, x) ==
    IF s = <<>>
    THEN 0
    ELSE (IF s[1] = x THEN 1 ELSE 0) + Count(Tail(s), x)

RECURSIVE ListenerEntries(_, _)
\* Number of entries for callback n in the listeners of the containers in S.
ListenerEntries(S, n) ==
    IF S = {}
    THEN 0
    ELSE LET p == CHOOSE q \in S : TRUE
         IN  Count(listeners[p], n) + ListenerEntries(S \ {p}, n)

\* Registration effects container n has produced: its callback's entries in
\* the store's listeners and in every Subscription's listeners.
Registrations(n) == Count(storeListeners, n) + ListenerEntries(Nodes, n)

\* Position of the first occurrence of x in s (0 when absent).
FirstIndex(s, x) ==
    IF x \in Range(s)
    THEN CHOOSE i \in DOMAIN s : s[i] = x /\ \A j \in 1..(i - 1) : s[j] # x
    ELSE 0

\* The constructed containers form one chain 1 <- 2 <- ... <- N under one root.
IsChain ==
    /\ constructed # {}
    /\ \A n \in constructed : parentSub[n] = n - 1

\* Every container has mounted without an error, each one before its parent.
MountedChildrenFirst ==
    /\ mounted = constructed
    /\ mountError = {}
    /\ \A n \in constructed :
          parentSub[n] # null =>
              FirstIndex(mountOrder, n) < FirstIndex(mountOrder, parentSub[n])

\* store.dispatch is about to return: every store listener has been called
\* and every nested notification has returned. No container is constructed
\* or mounted while a notification runs, so the tree is the one dispatched on.
DispatchReturning ==
    /\ Len(stack) = 1
    /\ stack[1].kind = "store"
    /\ stack[1].idx > stack[1].len

\* The first componentDidMount without an error at which a container of n's
\* subtree mounted, which is when n's trySubscribe first completed (0: not
\* yet).
AttachTime(n) ==
    LET at == {i \in DOMAIN mountOrder :
                  mountOrder[i] \in Subtree(n) /\ mountOrder[i] \notin mountError}
    IN  IF at = {} THEN 0 ELSE CHOOSE i \in at : \A j \in at : i <= j

\* The children of p whose first trySubscribe has run.
AttachedChildren(p) ==
    {c \in constructed : parentSub[c] = p /\ AttachTime(c) > 0}

----------------------------------------------------------------------------
\* C1: for a chain of N >= 1 containers under one root, once every container
\* has mounted (children before parents) the store holds exactly one
\* registered callback and it is the root's onStateChange.
C1_ChainRegistersOnlyRoot ==
    (IsChain /\ MountedChildrenFirst) => storeListeners = <<1>>

\* C2: trySubscribe is idempotent: however often it is called on a
\* Subscription, that Subscription has produced at most one registration
\* (store registration or entry in a listeners list).
C2_TrySubscribeIdempotent ==
    \A n \in constructed : Registrations(n) <= 1

\* C3: every callback passed to store.subscribe belongs to a root
\* Subscription (parentSub = null).
C3_OnlyRootInStore ==
    \A i \in DOMAIN storeListeners : parentSub[storeListeners[i]] = null

\* C4: for the tree Root(1) -> A(2) -> B(3) mounted B, A, Root, one store
\* change calls the onStateChange callbacks in the order Root, A, B and no
\* others.
C4_RootThenAThenB ==
    (/\ DispatchReturning
     /\ constructed = {1, 2, 3}
     /\ IsChain
     /\ mountError = {}
     /\ mountOrder = <<3, 2, 1>>) => log = <<1, 2, 3>>

\* C5: on a fully mounted tree every store change calls every container's
\* onStateChange exactly once, and never before that of one of its ancestors.
C5_EachOnceAncestorsFirst ==
    (/\ DispatchReturning
     /\ constructed # {}
     /\ mounted = constructed
     /\ mountError = {}) =>
        \A n \in constructed :
            /\ Count(log, n) = 1
            /\ \A a \in Ancestors(n) : FirstIndex(log, a) < FirstIndex(log, n)

\* C6: a notifyNestedSubs loop calls the callbacks of the node's children in
\* the order in which those children attached (not the order in which they
\* were constructed), each once, and when it returns it has called all of
\* the attached children.
C6_NotifyInAttachOrder ==
    \A k \in DOMAIN stack :
        stack[k].kind = "forEach" =>
            LET f == stack[k]
            IN  /\ \A i \in DOMAIN f.called :
                       f.called[i] \in AttachedChildren(f.node)
                /\ \A i, j \in DOMAIN f.called :
                       i < j => AttachTime(f.called[i]) < AttachTime(f.called[j])
                /\ f.idx > f.len => Range(f.called) = AttachedChildren(f.node)

\* C6 witness: a loop of a node called child 3 before child 2, which was
\* constructed first but attached later.
C6_Witness ==
    \E k \in DOMAIN stack :
        /\ stack[k].kind = "forEach"
        /\ stack[k].called = <<3, 2>>
        /\ parentSub[2] = stack[k].node
        /\ parentSub[3] = stack[k].node

\* An onStateChange of m that decides against a re-render starts, in the same
\* call, a notifyNestedSubs loop over all of m's listeners.
NoOpStillNotifies ==
    \A m \in Nodes :
        (log' = Append(log, m) /\ ~shouldComponentUpdate'[m]) =>
            Top(stack') = [kind |-> "forEach", node |-> m, idx |-> 1,
                           len |-> Len(listeners[m]), called |-> <<>>]

\* Every attached container was called at least as often as its parent.
DescendantsReached ==
    \A c \in constructed :
        (subscribed[c] /\ parentSub[c] # null) =>
            Count(log, c) >= Count(log, parentSub[c])

\* C7: a container whose onStateChange finds no re-render necessary still
\* calls notifyNestedSubs for that signal, and by the time the store change
\* has been delivered every attached descendant of a called container has
\* been called too.
C7_NoOpStillNotifies ==
    /\ [][NoOpStillNotifies]_vars
    /\ [](DispatchReturning => DescendantsReached)

\* C7 witness: a store change has been delivered in which the root never
\* re-rendered (its componentDidUpdate was never swapped) and a grandchild of
\* the root was reached through a child that never re-rendered either.
C7_Witness ==
    /\ DispatchReturning
    /\ \E r, c, g \in constructed :
          /\ parentSub[r] = null /\ parentSub[c] = r /\ parentSub[g] = c
          /\ componentDidUpdate[r] = "prototype"
          /\ componentDidUpdate[c] = "prototype"
          /\ r \in Range(log) /\ c \in Range(log) /\ g \in Range(log)

\* C8: from a chain in which nothing is attached yet, the first trySubscribe
\* (through addNestedSub) attaches every ancestor up to the root, each with
\* exactly one registration: in its parent's listeners, or in the store for
\* the root.
C8_AncestorsAttachOnce ==
    (Len(mountOrder) = 1 /\ mountError = {}) =>
        \A a \in Ancestors(mountOrder[1]) :
            subscribed[a] /\ Registrations(a) = 1

\* C9: a root Subscription (parentSub = null) on which trySubscribe has run
\* has its onStateChange registered with the store.
C9_RootRegistersWithStore ==
    \A n \in constructed :
        (parentSub[n] = null /\ subscribed[n]) => n \in Range(storeListeners)

\* C10: whenever a Subscription is subscribed, every Subscription on its
\* parentSub chain up to the root is subscribed.
C10_AncestorsSubscribedFirst ==
    \A n \in constructed :
        subscribed[n] => \A a \in Ancestors(n) : subscribed[a]

\* C10 witness: a container two levels below the root is subscribed while
\* none of its ancestors has mounted itself.
C10_Witness ==
    \E n \in constructed :
        /\ subscribed[n]
        /\ Cardinality(Ancestors(n)) >= 2
        /\ Ancestors(n) \cap mounted = {}

\* C11: constructing a Subscription registers nothing with the store or with
\* the parent, leaves every other Subscription as it was and yields
\* subscribed = false and an empty listeners list.
C11_ConstructIsPure ==
    [][\A n \in Nodes :
          (n \notin constructed /\ n \in constructed') =>
              /\ storeListeners' = storeListeners
              /\ subscribed'[n] = FALSE
              /\ listeners'[n] = <<>>
              /\ \A m \in Nodes \ {n} :
                    /\ subscribed'[m] = subscribed[m]
                    /\ listeners'[m] = listeners[m]
                    /\ parentSub'[m] = parentSub[m]]_vars

\* C11 witness: a container was constructed under a parent that is already
\* attached and has listeners, and it is itself not registered anywhere.
C11_Witness ==
    \E n \in constructed :
        /\ parentSub[n] \in Nodes
        /\ subscribed[parentSub[n]]
        /\ listeners[parentSub[n]] # <<>>
        /\ storeListeners # <<>>
        /\ ~subscribed[n]
        /\ Registrations(n) = 0

\* C12: when store.subscribe throws during trySubscribe, the exception
\* reaches the caller (componentDidMount), the Subscription whose trySubscribe
\* threw is not marked subscribed, and the attachment is not retried.
C12_FailedAttachNotSubscribed ==
    /\ \A n \in thrown : ~subscribed[n]
    /\ thrown # {} => mountOrder[Len(mountOrder)] \in thrown \cap mountError

\* C13: a malformed Subscription (here: a parentSub that is absent but not
\* null) is rejected when it is constructed, so every Subscription that
\* exists has parentSub null or another Subscription and no malformed one
\* reaches trySubscribe.
C13_MalformedRejectedAtConstruction ==
    \A n \in constructed : parentSub[n] = null \/ parentSub[n] \in constructed

\* s is an initial segment of t.
IsPrefix(s, t) == Len(s) <= Len(t) /\ SubSeq(t, 1, Len(s)) = s

\* C14: every Subscription's listeners list only grows by append: in every
\* step the list before is an initial segment of the list after.
C14_ListenersOnlyAppend ==
    [][\A n \in Nodes : IsPrefix(listeners[n], listeners'[n])]_vars

\* C14 witness: a list that grew by two appends has been walked by a
\* notifyNestedSubs loop and is still complete.
C14_Witness ==
    \E k \in DOMAIN stack :
        /\ stack[k].kind = "forEach"
        /\ Len(stack[k].called) = 2
        /\ stack[k].called = listeners[stack[k].node]

\* C15: once the trySubscribe of a container's componentDidMount has failed
\* (which the caller sees as an exception), no later store change calls the
\* onStateChange of that container or of a container below it.
C15_FailedSubtreeNeverNotified ==
    [][\A n \in mountError : \A d \in Subtree(n) : log' # Append(log, d)]_vars

\* The updates of container n that setState has started and not finished.
PendingUpdates(n) ==
    Cardinality({k \in DOMAIN stack :
                    stack[k].kind = "setState" /\ stack[k].node = n})

C17_ListenersAreAttachedChildren ==
    \A p \in Nodes : \A c \in Nodes :
        /\ Count(listeners[p], c) <= 1
        /\ c \in Range(listeners[p]) => parentSub[c] = p
        /\ (c \in constructed /\ parentSub[c] = p) =>
               (c \in Range(listeners[p]) <=> subscribed[c])

\* C17 witness: a container below the root whose trySubscribe has run twice
\* (for its child's mount and for its own) stands once in the list of the
\* root, which has not mounted itself.
C17_Witness ==
    \E r, p, c \in constructed :
        /\ parentSub[p] = r /\ parentSub[c] = p
        /\ {p, c} \subseteq mounted \ mountError
        /\ r \notin mounted
        /\ Count(listeners[r], p) = 1
        /\ Count(listeners[p], c) = 1

Finished(d, x) ==
    /\ \A k \in DOMAIN stack : stack[k].node # d
    /\ ~shouldComponentUpdate[d]
    /\ (d # x /\ subscribed[d]) => Count(log, d) >= Count(log, parentSub[d])

AllPathsRun ==
    \A n \in Nodes :
        Count(log, n) =
            Count(storeListeners, n)
            + (IF parentSub[n] \in Nodes
               THEN Count(listeners[parentSub[n]], n) * Count(log, parentSub[n])
               ELSE 0)

C22_CalledOnlyWhenSubscribed ==
    [][\A m \in Nodes : log' = Append(log, m) => subscribed[m]]_vars

\* C22 witness: a notification has called a container whose own
\* componentDidMount has not run, attached through the mount of a child,
\* and that child after it.
C22_Witness ==
    \E m, c \in constructed :
        /\ parentSub[c] = m
        /\ m \notin mounted
        /\ subscribed[m]
        /\ m \in Range(log)
        /\ c \in Range(log)

\* C23: in the version-1 wiring, with a store that calls its listeners in
\* registration order, a store change calls the onStateChange of a container
\* that mounted before the container above it (as children do) before the
\* onStateChange of that container: descendants come before their ancestors.
C23_V1DescendantBeforeAncestor ==
    DispatchReturning =>
        \A c \in mounted :
            (/\ parentSub[c] \in mounted
             /\ FirstIndex(mountOrder, c) < FirstIndex(mountOrder, parentSub[c])) =>
                /\ Count(log, c) = 1
                /\ Count(log, parentSub[c]) = 1
                /\ FirstIndex(log, c) < FirstIndex(log, parentSub[c])

\* C23 witness: the chain Root(1) -> A(2) -> B(3), mounted B, A, Root, has
\* been notified of a store change in the order B, A, Root.
C23_Witness ==
    /\ DispatchReturning
    /\ IsChain
    /\ mountOrder = <<3, 2, 1>>
    /\ log = <<3, 2, 1>>

\* Every running notifyNestedSubs loop has called exactly the first idx - 1
\* entries of its list, in the list's order, and does not go beyond the
\* length it started with.
LoopsWalkTheirStartingRange ==
    \A k \in DOMAIN stack :
        stack[k].kind = "forEach" =>
            /\ stack[k].idx - 1 <= stack[k].len
            /\ stack[k].len <= Len(listeners[stack[k].node])
            /\ stack[k].called =
                   SubSeq(listeners[stack[k].node], 1, stack[k].idx - 1)

\* A registration on a node leaves the running loops of that node as they
\* are: their range still ends before the new entry.
RegistrationKeepsRunningLoops ==
    \A k \in DOMAIN stack :
        (/\ stack[k].kind = "forEach"
         /\ Len(listeners'[stack[k].node]) > Len(listeners[stack[k].node])) =>
            /\ k \in DOMAIN stack'
            /\ stack'[k] = stack[k]

\* A loop that starts takes the whole list as it is then.
NewLoopsTakeWholeList ==
    \A k \in DOMAIN stack' :
        (/\ stack'[k].kind = "forEach"
         /\ stack'[k].idx = 1
         /\ (k \notin DOMAIN stack \/ stack[k] # stack'[k])) =>
            stack'[k].len = Len(listeners'[stack'[k].node])

\* C24: when a child registers on a node while that node's notifyNestedSubs
\* loop is running, the running loop still calls every child registered
\* before it started, once each and in registration order, and does not
\* call the new child; the next loop of the node calls it.
C24_RegistrationDuringLoop ==
    /\ []LoopsWalkTheirStartingRange
    /\ [][RegistrationKeepsRunningLoops /\ NewLoopsTakeWholeList]_vars

\* C24 witness: a loop of a node has come to its end having called the
\* children registered when it started, while the node's list holds a child
\* that registered during the loop.
C24_Witness ==
    \E k \in DOMAIN stack :
        /\ stack[k].kind = "forEach"
        /\ stack[k].idx > stack[k].len
        /\ stack[k].len >= 1
        /\ Len(stack[k].called) = stack[k].len
        /\ Len(listeners[stack[k].node]) > stack[k].len
        /\ \A i \in (stack[k].len + 1)..Len(listeners[stack[k].node]) :
               listeners[stack[k].node][i] \notin Range(stack[k].called)

\* No step gives a constructed Subscription another parentSub.
ParentSubFixed ==
    \A n \in constructed : parentSub'[n] = parentSub[n]

\* A step of a notification (one that starts, advances or ends a loop over
\* listeners) changes no subscribed flag and no listeners list and registers
\* nothing with the store.
NotifyChangesNoSubscription ==
    stack' # stack =>
        /\ subscribed' = subscribed
        /\ listeners' = listeners
        /\ storeListeners' = storeListeners

\* The trySubscribe of container n's componentDidMount changes the
\* subscribed flag and the listeners list of no Subscription other than n
\* and the ancestors of n.
AttachTouchesOnlyAncestors ==
    \A n \in Nodes :
        mountOrder' = Append(mountOrder, n) =>
            \A m \in Nodes \ ({n} \cup Ancestors(n)) :
                /\ subscribed'[m] = subscribed[m]
                /\ listeners'[m] = listeners[m]

\* C25: frame conditions of the Subscription operations: parentSub is never
\* reassigned; notifyNestedSubs changes no subscribed flag, no listeners
\* list and no store registration; trySubscribe on a node changes flags and
\* lists of that node and its ancestors only.
C25_FrameConditions ==
    [][/\ ParentSubFixed
       /\ NotifyChangesNoSubscription
       /\ AttachTouchesOnlyAncestors]_vars

\* C25 witness: a container has attached to its parent and a notification
\* has reached it, while another constructed container, neither the
\* container nor one of its ancestors, is still as its constructor left it.
C25_Witness ==
    \E n, u \in constructed :
        /\ parentSub[n] \in Nodes
        /\ n \in mounted
        /\ n \in Range(listeners[parentSub[n]])
        /\ n \in Range(log)
        /\ u \notin {n} \cup Ancestors(n)
        /\ ~subscribed[u]
        /\ listeners[u] = <<>>

====
